---- MODULE Spec2Model ----
(***************************************************************************)
(* A model of the JRA odds scraper (src/scraping.py): main, the batch      *)
(* orchestrator get_daily_odds, the navigation of get_race_odds and the    *)
(* extraction of the win (tansho), place (fukusho) and quinella (umaren)   *)
(* maps.                                                                   *)
(*                                                                         *)
(* Text is a sequence of one-character strings.  Odds are kept in          *)
(* hundredths (the text "1.8" is 180); the site prints odds with at most   *)
(* one decimal, so a midpoint of two of them is a whole number of          *)
(* hundredths.                                                             *)
(*                                                                         *)
(* Exceptions.  These raise in the model: each browser operation (start,   *)
(* launch, new_context, new_page, goto, click, wait_for_load_state,        *)
(* close), each int() and float() of a text that is no number, the         *)
(* ValueError of line 328, and the statements that follow the call in the  *)
(* try of the batch loop (the console writes of lines 362 and 365, the     *)
(* sleep of line 368).  An except handler is taken to complete, with one   *)
(* exception: the handler of get_race_odds (lines 102-113), whose failing  *)
(* console write is the only way an exception leaves get_race_odds, the    *)
(* case the inner handler of get_daily_odds (lines 370-383) is written     *)
(* for.  The handler of _extract_odds_from_page (lines 157-168) is never   *)
(* entered: the two extractors it calls catch what they raise.             *)
(***************************************************************************)
EXTENDS Integers, Sequences, FiniteSets, TLC

VARIABLES
    pc,                \* position of the single thread of control
    argv,              \* the command line: <<"--date", date>> or <<race_id>>
    date,              \* get_daily_odds: the date argument, normalised in place
    race_ids,          \* get_daily_odds: the resolver's result
    idx,               \* get_daily_odds: 1-based index of the loop (i of enumerate)
    races_data,        \* get_daily_odds: the records appended so far
    successful_count,  \* get_daily_odds
    failed_count,      \* get_daily_odds
    report,            \* what get_daily_odds returned (NoValue before)
    paced,             \* whether time.sleep(1) has run since the last fetch ended
    caller,            \* who called get_race_odds: "daily", "main" or "fixture"
    race_id,           \* get_race_odds: its argument
    labels,            \* get_race_odds: place_name, race_num, kaisai_name, race_name
    kaisai_link,       \* get_race_odds: count() of the links named kaisai_name
    playwright,        \* whether the playwright driver of this call is running
    browsers,          \* number of browsers launched and not closed
    contexts,          \* number of browsing contexts created and not closed
    nav,               \* where the page is: the navigation state
    clicked,           \* the link names clicked so far, in order
    page,              \* the content of the odds page once it is reached
    tansho,            \* extraction: the win map
    fukusho,           \* extraction: the place map
    umaren,            \* extraction: the quinella map
    odds_data,         \* the record get_race_odds returns
    exc,               \* the exception in flight ("none" when there is none)
    launched           \* number of browsers launched since the program started

vars == <<pc, argv, date, race_ids, idx, races_data, successful_count,
          failed_count, report, paced, caller, race_id, labels,
          kaisai_link, playwright,
          browsers, contexts, nav, clicked, page, tansho, fukusho, umaren,
          odds_data, exc, launched>>

\* Bounds of the model.
MaxRaces == 2      \* longest resolver result
MaxRows == 3       \* most rows of the win/place table (horses of a race)

NoValue == [none |-> TRUE]
Absent == <<"absent">>          \* a locator whose count() is 0

(***************************************************************************)
(* Text                                                                    *)
(***************************************************************************)
DigitChars == <<"0", "1", "2", "3", "4", "5", "6", "7", "8", "9">>
Digit == {DigitChars[n] : n \in DOMAIN DigitChars}
DigitVal(c) == (CHOOSE n \in DOMAIN DigitChars : DigitChars[n] = c) - 1
Chr(n) == DigitChars[n + 1]

Min2(a, b) == IF a <= b THEN a ELSE b

\* Python s[a:b] for 0 <= a <= b: clipped to the string.
Slice(s, a, b) == SubSeq(s, a + 1, Min2(b, Len(s)))

\* Python s.replace(c, "").
Remove(s, c) == SelectSeq(s, LAMBDA x : x # c)

\* The texts int() accepts, within the alphabet of the model.
IsInt(s) == Len(s) > 0 /\ \A n \in DOMAIN s : s[n] \in Digit

RECURSIVE IntOf(_)
IntOf(s) == IF s = <<>> THEN 0
            ELSE 10 * IntOf(SubSeq(s, 1, Len(s) - 1)) + DigitVal(s[Len(s)])

\* The texts float() accepts, within the alphabet of the model: digits with
\* at most one point and at most one decimal.
DotAt(s) == IF \E n \in DOMAIN s : s[n] = "."
            THEN CHOOSE n \in DOMAIN s : s[n] = "." /\ \A m \in 1..(n - 1) : s[m] # "."
            ELSE Len(s) + 1
IntPart(s) == SubSeq(s, 1, DotAt(s) - 1)
FracPart(s) == SubSeq(s, DotAt(s) + 1, Len(s))
IsFloat(s) == /\ s # Absent
              /\ \A n \in DOMAIN FracPart(s) : FracPart(s)[n] \in Digit
              /\ \A n \in DOMAIN IntPart(s) : IntPart(s)[n] \in Digit
              /\ Len(IntPart(s)) + Len(FracPart(s)) > 0
              /\ Len(FracPart(s)) <= 1
\* float(s), in hundredths.
FloatOf(s) == 100 * IntOf(IntPart(s)) + 10 * IntOf(FracPart(s))

(***************************************************************************)
(* Python dict: a sequence of <<key, value>> in insertion order            *)
(***************************************************************************)
Keys(d) == {d[n][1] : n \in DOMAIN d}
Get(d, k) == d[CHOOSE n \in DOMAIN d : d[n][1] = k][2]
\* d[k] = v: a new key goes last, a known key keeps its place.
Put(d, k, v) == IF k \in Keys(d)
                THEN [n \in DOMAIN d |-> IF d[n][1] = k THEN <<k, v>> ELSE d[n]]
                ELSE Append(d, <<k, v>>)


(***************************************************************************)
(* The odds page: what the site shows once navigation has reached a race   *)
(***************************************************************************)
T11 == <<"1", ".", "1">>
T14 == <<"1", ".", "4">>
T18 == <<"1", ".", "8">>
T20 == <<"2", ".", "0">>
T35 == <<"3", ".", "5">>
T54 == <<"5", ".", "4">>
TComma == <<"1", ",", "2", "3", "4", ".", "5">>
TBad == <<"-", "-", "-">>

\* The rows of table.tanpuku, up to their horse number: td.odds_tan and the
\* span.min / span.max of td.odds_fuku (the site shows min <= max).
RowKinds ==
    { [num |-> TRUE,  tan |-> T18,    fuku |-> [td |-> TRUE, min |-> T11, max |-> T14]],
      [num |-> TRUE,  tan |-> T54,    fuku |-> [td |-> TRUE, min |-> T20, max |-> T35]],
      [num |-> TRUE,  tan |-> TComma, fuku |-> [td |-> FALSE, min |-> Absent, max |-> Absent]],
      [num |-> TRUE,  tan |-> Absent, fuku |-> [td |-> TRUE, min |-> T11, max |-> T14]],
      [num |-> TRUE,  tan |-> TBad,   fuku |-> [td |-> TRUE, min |-> T11, max |-> T14]],
      [num |-> TRUE,  tan |-> T18,    fuku |-> [td |-> TRUE, min |-> T11, max |-> Absent]],
      [num |-> TRUE,  tan |-> T18,    fuku |-> [td |-> TRUE, min |-> TBad, max |-> T14]],
      [num |-> FALSE, tan |-> T18,    fuku |-> [td |-> TRUE, min |-> T11, max |-> T14]] }

\* Row j of the table carries horse number j.
TableRows(kinds) ==
    [j \in DOMAIN kinds |->
        [num  |-> IF kinds[j].num THEN <<Chr(j)>> ELSE Absent,
         tan  |-> kinds[j].tan,
         fuku |-> kinds[j].fuku]]

\* The bet-type tabs of ul.nav.pills: their labels, and the labels whose
\* click raises (a timeout).
TabKinds ==
    { [tabs |-> <<"tanpuku", "wakuren", "umaren">>, broken |-> {}],
      [tabs |-> <<"wakuren", "umaren">>,            broken |-> {}],
      [tabs |-> <<"tanpuku", "wakuren">>,           broken |-> {}],
      [tabs |-> <<"tanpuku", "wakuren", "umaren">>, broken |-> {"tanpuku"}],
      [tabs |-> <<"tanpuku", "wakuren", "umaren">>, broken |-> {"umaren"}] }

QuinKinds == {"numeric", "badOdds", "badFirst", "noCaption", "noTh"}

\* The odds cell of the pair (c, d): thousands separators occur.
PairText(c, d) == IF d = c + 2 THEN <<"1", ",", "0", Chr(c), Chr(d), ".", "0">>
                  ELSE <<Chr(c), Chr(d), ".", "5">>

\* ul.umaren_list: one li per first horse c < n, captioned c, with one row
\* per second horse d > c.
QuinTables(n, kind) ==
    [c \in 1..(n - 1) |->
        [caption |-> IF kind = "noCaption" /\ c = 1 THEN Absent ELSE <<Chr(c)>>,
         rows |-> [r \in 1..(n - c) |->
            [th |-> IF kind = "noTh" /\ r = 1 THEN Absent ELSE <<Chr(c + r)>>,
             td |-> IF \/ kind = "badOdds" /\ r = 2
                       \/ kind = "badFirst" /\ r = 1
                    THEN TBad
                    ELSE PairText(c, c + r)]]]]

RowSeqs(n) == UNION {[1..m -> RowKinds] : m \in 0..n}

MakePage(kinds, tab, quin, header) ==
    [header |-> header,
     tabs   |-> tab.tabs,
     broken |-> tab.broken,
     table  |-> kinds # <<>>,
     rows   |-> TableRows(kinds),
     lists  |-> QuinTables(Len(kinds), quin)]

AllTabs == [tabs |-> <<"tanpuku", "wakuren", "umaren">>, broken |-> {}]

\* The shapes of a page around its win/place rows: every quinella layout and
\* a readable or unreadable race header under the full tab bar, each
\* defective tab bar, and the full page with its rows in descending order.
PageShapes ==
    {[tab |-> AllTabs, quin |-> q, header |-> h, descending |-> FALSE] :
        q \in QuinKinds, h \in BOOLEAN}
    \cup {[tab |-> t, quin |-> "numeric", header |-> TRUE,
             descending |-> FALSE] : t \in TabKinds}
    \cup {[tab |-> AllTabs, quin |-> "numeric", header |-> TRUE,
            descending |-> TRUE]}

\* The page with the rows of its win/place table numbered from the last
\* horse down to the first.
Descending(p) ==
    [p EXCEPT !.rows = [j \in DOMAIN p.rows |->
        [p.rows[j] EXCEPT !.num = IF p.rows[j].num = Absent THEN Absent
                                  ELSE <<Chr(Len(p.rows) + 1 - j)>>]]]

\* The page of a shape with the given rows.
ShapedPage(k, s) ==
    IF s.descending THEN Descending(MakePage(k, s.tab, s.quin, s.header))
    ELSE MakePage(k, s.tab, s.quin, s.header)

\* Every page of at most MaxRows horses.
OddsPages == {ShapedPage(k, s) : k \in RowSeqs(MaxRows), s \in PageShapes}

(***************************************************************************)
(* _extract_tanpuku_odds                                                   *)
(***************************************************************************)
\* A midpoint cut down to whole odds, as (low + high) // 2 would give.
MidpointFloor(low, high) == ((low + high) \div 200) * 100

\* (fuku_odds_low + fuku_odds_high) / 2 of line 219, in hundredths: the sum
\* of two values of at most one decimal is an even number of hundredths.
Midpoint(low, high) == (low + high) \div 2

\* One row (lines 195-219).  Gives the maps after the row and whether the
\* row raised: an exception leaves the loop with what was stored before it.
TanpukuRow(row, tan, fuku) ==
    IF row.num = Absent THEN [tan |-> tan, fuku |-> fuku, raised |-> FALSE]
    ELSE IF ~IsInt(row.num) THEN [tan |-> tan, fuku |-> fuku, raised |-> TRUE]
    ELSE
      LET umaban == IntOf(row.num)
          tanText == IF row.tan = Absent THEN Absent ELSE Remove(row.tan, ",")
          tan1 == IF row.tan # Absent /\ IsFloat(tanText)
                  THEN Put(tan, umaban, FloatOf(tanText)) ELSE tan
          both == row.fuku.td /\ row.fuku.min # Absent /\ row.fuku.max # Absent
      IN  IF row.tan # Absent /\ ~IsFloat(tanText)
          THEN [tan |-> tan, fuku |-> fuku, raised |-> TRUE]
          ELSE IF ~both
          THEN [tan |-> tan1, fuku |-> fuku, raised |-> FALSE]
          ELSE IF ~IsFloat(row.fuku.min) \/ ~IsFloat(row.fuku.max)
          THEN [tan |-> tan1, fuku |-> fuku, raised |-> TRUE]
          ELSE [tan |-> tan1,
                fuku |-> Put(fuku, umaban,
                             Midpoint(FloatOf(row.fuku.min), FloatOf(row.fuku.max))),
                raised |-> FALSE]

RECURSIVE TanpukuRows(_, _, _, _)
TanpukuRows(rows, j, tan, fuku) ==
    IF j > Len(rows) THEN [tan |-> tan, fuku |-> fuku]
    ELSE LET r == TanpukuRow(rows[j], tan, fuku)
         IN  IF r.raised THEN [tan |-> r.tan, fuku |-> r.fuku]
             ELSE TanpukuRows(rows, j + 1, r.tan, r.fuku)

HasTab(p, label) == \E n \in DOMAIN p.tabs : p.tabs[n] = label

\* Lines 170-225: the maps are empty when no tab is labelled win/place, when
\* its click raises or when the page holds no table.tanpuku.
ExtractTanpukuOdds(p) ==
    IF HasTab(p, "tanpuku") /\ "tanpuku" \notin p.broken /\ p.table
    THEN TanpukuRows(p.rows, 1, <<>>, <<>>)
    ELSE [tan |-> <<>>, fuku |-> <<>>]

(***************************************************************************)
(* _extract_umaren_odds                                                    *)
(***************************************************************************)
\* The lowest horse number among the keys whose value is the least.
FavoriteLowestNumber(tan) ==
    LET least == CHOOSE v \in {tan[n][2] : n \in DOMAIN tan} :
                    \A n \in DOMAIN tan : v <= tan[n][2]
        tied == {tan[n][1] : n \in {m \in DOMAIN tan : tan[m][2] = least}}
    IN  CHOOSE h \in tied : \A g \in tied : h <= g

\* min(tansho.keys(), key=lambda x: tansho[x]): the first key, in the order
\* of the dict, whose value is the least.
FavoriteHorse(tan) ==
    LET least == CHOOSE v \in {tan[n][2] : n \in DOMAIN tan} :
                    \A n \in DOMAIN tan : v <= tan[n][2]
        first == CHOOSE n \in DOMAIN tan :
                    tan[n][2] = least /\ \A m \in 1..(n - 1) : tan[m][2] # least
    IN  tan[first][1]

\* The rows of one sub-table (lines 272-283).
RECURSIVE UmarenRows(_, _, _, _)
UmarenRows(rows, l, first_horse, uma) ==
    IF l > Len(rows) THEN [uma |-> uma, raised |-> FALSE]
    ELSE LET row == rows[l]
             text == IF row.td = Absent THEN Absent ELSE Remove(row.td, ",")
         IN  IF row.th = Absent \/ row.td = Absent
             THEN UmarenRows(rows, l + 1, first_horse, uma)
             ELSE IF ~IsInt(row.th) \/ ~IsFloat(text)
             THEN [uma |-> uma, raised |-> TRUE]
             ELSE UmarenRows(rows, l + 1, first_horse,
                             Put(uma, <<first_horse, IntOf(row.th)>>, FloatOf(text)))

\* Every sub-table parsed, whatever its caption.
IsAnyTable(first_horse, favorite_horse) == TRUE

\* Whether the sub-table captioned first_horse is the one to parse (line 269).
IsFavoriteTable(first_horse, favorite_horse) == first_horse = favorite_horse

\* The sub-tables in page order (lines 256-283).
RECURSIVE UmarenTables(_, _, _, _)
UmarenTables(lists, k, favorite_horse, uma) ==
    IF k > Len(lists) THEN uma
    ELSE LET t == lists[k]
         IN  IF t.caption = Absent
             THEN UmarenTables(lists, k + 1, favorite_horse, uma)
             ELSE IF ~IsInt(t.caption) THEN uma
             ELSE IF ~IsFavoriteTable(IntOf(t.caption), favorite_horse)
             THEN UmarenTables(lists, k + 1, favorite_horse, uma)
             ELSE LET r == UmarenRows(t.rows, 1, IntOf(t.caption), uma)
                  IN  IF r.raised THEN r.uma
                      ELSE UmarenTables(lists, k + 1, favorite_horse, r.uma)

\* Lines 227-289.
ExtractUmarenOdds(p, tan) ==
    IF tan = <<>> THEN <<>>
    ELSE IF HasTab(p, "umaren") /\ "umaren" \notin p.broken
    THEN UmarenTables(p.lists, 1, FavoriteHorse(tan), <<>>)
    ELSE <<>>

(***************************************************************************)
(* Records                                                                 *)
(***************************************************************************)
\* Lines 146-155.
SuccessRecord(id, p, tan, fuku, uma) ==
    [race_id |-> id,
     race_name |-> IF p.header THEN "title" ELSE "unknown",
     post_time |-> IF p.header THEN "HH:MM" ELSE "unknown",
     tansho |-> tan, fukusho |-> fuku, umaren |-> uma,
     status |-> "success", message |-> "ok"]

\* Lines 104-113 and 372-381.
ErrorRecord(id, e) ==
    [race_id |-> id, race_name |-> "unknown", post_time |-> "unknown",
     tansho |-> <<>>, fukusho |-> <<>>, umaren |-> <<>>,
     status |-> "error", message |-> e]


(***************************************************************************)
(* _extract_odds_from_page, step by step                                   *)
(***************************************************************************)
\* Whether the click of the first tab labelled `label` goes through (lines
\* 180-185 and 244-249).
SelectsTab(p, label) == HasTab(p, label) /\ label \notin p.broken

\* Line 141: the win/place tab is selected and its table read.
ExtractTanpuku ==
    /\ pc = "tanpuku"
    /\ LET r == ExtractTanpukuOdds(page)
       IN  tansho' = r.tan /\ fukusho' = r.fuku
    /\ clicked' = IF SelectsTab(page, "tanpuku")
                  THEN Append(clicked, "tanpuku tab") ELSE clicked
    /\ pc' = "umaren"
    /\ UNCHANGED <<argv, date, race_ids, idx, races_data, successful_count,
                   failed_count, report, paced, caller, race_id, labels,
                   kaisai_link, playwright, browsers, contexts, nav, page,
                   umaren, odds_data, exc, launched>>

\* Line 144: with a win map, the quinella tab is selected and its
\* sub-tables read; with none, line 234 returns before any click.
ExtractUmaren ==
    /\ pc = "umaren"
    /\ umaren' = ExtractUmarenOdds(page, tansho)
    /\ clicked' = IF tansho # <<>> /\ SelectsTab(page, "umaren")
                  THEN Append(clicked, "umaren tab") ELSE clicked
    /\ pc' = "record"
    /\ UNCHANGED <<argv, date, race_ids, idx, races_data, successful_count,
                   failed_count, report, paced, caller, race_id, labels,
                   kaisai_link, playwright, browsers, contexts, nav, page,
                   tansho, fukusho, odds_data, exc, launched>>

\* Lines 146-155, and the return of line 96 into the finally of line 98.
BuildRecord ==
    /\ pc = "record"
    /\ odds_data' = SuccessRecord(race_id, page, tansho, fukusho, umaren)
    /\ pc' = IF caller = "fixture" THEN "extracted" ELSE "finally"
    /\ UNCHANGED <<argv, date, race_ids, idx, races_data, successful_count,
                   failed_count, report, paced, caller, race_id, labels,
                   kaisai_link,
                   playwright, browsers, contexts, nav, clicked, page, tansho,
                   fukusho, umaren, exc, launched>>

Extraction == ExtractTanpuku \/ ExtractUmaren \/ BuildRecord

\* A well-formed identifier: 2025, venue 05, day of meeting 01, race 02.
SampleId == <<"2", "0", "2", "5", "0", "5", "0", "1", "0", "2">>

\* _extract_odds_from_page on every page of OddsPages.
InitExtract ==
    /\ pc = "tanpuku"
    /\ page \in OddsPages
    /\ caller = "fixture"
    /\ race_id = SampleId
    /\ argv = NoValue /\ date = <<>> /\ race_ids = <<>> /\ idx = 0
    /\ races_data = <<>> /\ successful_count = 0 /\ failed_count = 0
    /\ report = NoValue /\ paced = FALSE /\ labels = NoValue
    /\ kaisai_link = 0
    /\ playwright = FALSE /\ browsers = 0 /\ contexts = 0
    /\ nav = "RaceSelected" /\ clicked = <<>>
    /\ tansho = <<>> /\ fukusho = <<>> /\ umaren = <<>>
    /\ odds_data = NoValue /\ exc = "none" /\ launched = 0

SpecExtract == InitExtract /\ [][Extraction]_vars


(***************************************************************************)
(* get_race_odds                                                           *)
(***************************************************************************)
place_mapping == <<"Sapporo", "Hakodate", "Fukushima", "Niigata", "Tokyo",
                   "Nakayama", "Chukyo", "Kyoto", "Hanshin", "Kokura">>

\* self.place_mapping.get(place_code, "不明") of line 58.  A label is a text:
\* a sequence of pieces.
PlaceName(place_code) ==
    IF place_code \in DOMAIN place_mapping THEN <<place_mapping[place_code]>>
    ELSE <<"unknown">>

\* str() of an int below 100, as an f-string formats it: no leading zero.
DecimalText(n) == IF n < 10 THEN <<Chr(n)>> ELSE <<Chr(n \div 10), Chr(n % 10)>>

\* place_mapping.get(place_code, f"不明({place_code})") of
\* create_place_summary_table (src/app.py, line 136; the same at line 418).
SummaryPlaceName(place_code) ==
    IF place_code \in DOMAIN place_mapping THEN <<place_mapping[place_code]>>
    ELSE <<"unknown", "(">> \o DecimalText(place_code) \o <<")">>

\* The same expression in create_csv_data_for_place (src/app.py, line 192).
CsvPlaceName(place_code) ==
    IF place_code \in DOMAIN place_mapping THEN <<place_mapping[place_code]>>
    ELSE <<"unknown", "(">> \o DecimalText(place_code) \o <<")">>

\* Whether lines 52-56 run to their end: the two int() of lines 55 and 56.
ParsesHeader(id) == IsInt(Slice(id, 4, 6)) /\ IsInt(Slice(id, 8, 10))

\* Whether line 74 runs to its end.
ParsesLabels(id) == IsInt(Slice(id, 6, 8)) /\ IsInt(Slice(id, 8, 10))

\* kaisai_name of line 74: "{int(race_id[6:8])}回{place_name}{int(race_id[8:10])}日".
KaisaiName(id, place_name) ==
    [kai |-> IntOf(Slice(id, 6, 8)), place |-> place_name,
     day |-> IntOf(Slice(id, 8, 10))]

\* A driver that is never stopped: what was left open stays open.
AfterDriverStopLeak(open) == open

\* What is still open once the playwright driver has stopped (the exit of
\* the async with of line 62): the driver takes down what it launched.
AfterDriverStop(open) == 0

GetRaceOddsVars == <<race_id, caller, labels,
                     kaisai_link, playwright, browsers, contexts,
                     nav, clicked, page, tansho, fukusho, umaren, odds_data,
                     exc, launched>>
DailyVars == <<argv, date, race_ids, idx, races_data, successful_count,
               failed_count, report, paced>>

\* An exception raised at a statement of the try of lines 50-100 that is
\* outside the async with: control goes to the handler of line 102.
\* Lines 51-60.
ParseRaceId ==
    /\ pc = "parse"
    /\ IF ParsesHeader(race_id)
       THEN /\ labels' = [place_name |-> PlaceName(IntOf(Slice(race_id, 4, 6))),
                          race_num |-> IntOf(Slice(race_id, 8, 10))]
            /\ pc' = "start"
            /\ exc' = "none"
       ELSE /\ labels' = labels
            /\ pc' = "handler"
            /\ exc' = "ValueError"
    /\ UNCHANGED DailyVars
    /\ UNCHANGED <<race_id, caller, kaisai_link, playwright, browsers, contexts,
                   nav, clicked, page, tansho, fukusho, umaren, odds_data,
                   launched>>

\* Line 62, entering the async with: the driver starts, or fails to.
StartPlaywright ==
    /\ pc = "start"
    /\ \E ok \in BOOLEAN :
         IF ok THEN playwright' = TRUE /\ pc' = "launch" /\ exc' = exc
         ELSE playwright' = FALSE /\ pc' = "handler" /\ exc' = "Error"
    /\ UNCHANGED DailyVars
    /\ UNCHANGED <<race_id, caller, labels,
                   kaisai_link, browsers, contexts, nav, clicked,
                   page, tansho, fukusho, umaren, odds_data, launched>>

\* Line 63.  Lines 63-65 are inside the async with and before the try of
\* line 67: an exception there leaves through the async with alone.
LaunchBrowser ==
    /\ pc = "launch"
    /\ \E ok \in BOOLEAN :
         IF ok THEN /\ browsers' = browsers + 1 /\ launched' = launched + 1
                    /\ pc' = "new_context" /\ exc' = exc
         ELSE /\ browsers' = browsers /\ launched' = launched
              /\ pc' = "exit_with" /\ exc' = "Error"
    /\ UNCHANGED DailyVars
    /\ UNCHANGED <<race_id, caller, labels,
                   kaisai_link, playwright, contexts, nav, clicked,
                   page, tansho, fukusho, umaren, odds_data>>

\* Line 64.
NewContext ==
    /\ pc = "new_context"
    /\ \E ok \in BOOLEAN :
         IF ok THEN contexts' = contexts + 1 /\ pc' = "new_page" /\ exc' = exc
         ELSE contexts' = contexts /\ pc' = "exit_with" /\ exc' = "Error"
    /\ UNCHANGED DailyVars
    /\ UNCHANGED <<race_id, caller, labels,
                   kaisai_link, playwright, browsers, nav, clicked,
                   page, tansho, fukusho, umaren, odds_data, launched>>

\* Line 65.
NewPage ==
    /\ pc = "new_page"
    /\ \E ok \in BOOLEAN :
         IF ok THEN nav' = "Blank" /\ pc' = "goto" /\ exc' = exc
         ELSE nav' = nav /\ pc' = "exit_with" /\ exc' = "Error"
    /\ UNCHANGED DailyVars
    /\ UNCHANGED <<race_id, caller, labels,
                   kaisai_link, playwright, browsers, contexts,
                   clicked, page, tansho, fukusho, umaren, odds_data, launched>>

\* One step of the try of lines 67-96 that loads or clicks: it brings the
\* page to `to` and control to `next`, or raises into the finally.
NavStep(at, link, to, next) ==
    /\ pc = at
    /\ \E ok \in BOOLEAN :
         IF ok THEN /\ nav' = to /\ clicked' = Append(clicked, link)
                    /\ pc' = next /\ exc' = exc
         ELSE /\ nav' = nav /\ clicked' = clicked
              /\ pc' = "finally" /\ exc' = "Error"
    /\ UNCHANGED DailyVars
    /\ UNCHANGED <<race_id, caller, labels,
                   kaisai_link, playwright, browsers, contexts,
                   page, tansho, fukusho, umaren, odds_data, launched>>

\* Line 69.
GotoHome == NavStep("goto", "keiba", "Home", "click_odds")

\* Lines 70-71.
ClickOdds == NavStep("click_odds", "odds", "OddsLanding", "labels")

\* Lines 74-77.
BuildLabels ==
    /\ pc = "labels"
    /\ IF ParsesLabels(race_id)
       THEN /\ labels' = [place_name |-> labels.place_name,
                          race_num |-> labels.race_num,
                          kaisai_name |-> KaisaiName(race_id, labels.place_name),
                          race_name |-> labels.race_num]
            /\ pc' = "route"
            /\ exc' = exc
       ELSE /\ labels' = labels
            /\ pc' = "finally"
            /\ exc' = "ValueError"
    /\ UNCHANGED DailyVars
    /\ UNCHANGED <<race_id, caller, kaisai_link, playwright, browsers, contexts,
                   nav, clicked, page, tansho, fukusho, umaren, odds_data,
                   launched>>

\* The direct route whatever the count.
RouteAlwaysDirect(count) == "meeting"

\* The if of line 80: the direct route when a link named kaisai_name is
\* there, else the route through the race results.
RouteFor(count) == IF count > 0 THEN "meeting" ELSE "results"

\* Lines 79-80 and 84: how many links of the odds landing page are named
\* kaisai_name is the site's choice.
ChooseRoute ==
    /\ pc = "route"
    /\ \E count \in 0..1 :
         /\ kaisai_link' = count
         /\ pc' = RouteFor(count)
    /\ UNCHANGED DailyVars
    /\ UNCHANGED <<race_id, caller, labels, playwright, browsers, contexts,
                   nav, clicked, page, tansho, fukusho, umaren, odds_data,
                   exc, launched>>

\* Line 82.
ClickMeeting ==
    NavStep("meeting", "kaisai_name", "MeetingSelected", "race")

\* Line 83.
ClickRace ==
    NavStep("race", "race_name", "RaceSelected", "loaded")

\* Line 86.
ClickResults ==
    NavStep("results", "results", "ResultsListing", "fb_meeting")

\* Line 87.
FallbackClickMeeting ==
    NavStep("fb_meeting", "kaisai_name", "ResultMeeting", "fb_race")

\* Line 88.
FallbackClickRace ==
    NavStep("fb_race", "race_name", "RaceResult", "fb_odds")

\* Line 89.
FallbackClickOdds ==
    NavStep("fb_odds", "odds in race_result", "RaceSelected", "loaded")


RowA == [num |-> TRUE, tan |-> T18, fuku |-> [td |-> TRUE, min |-> T11, max |-> T14]]
RowB == [num |-> TRUE, tan |-> T54, fuku |-> [td |-> TRUE, min |-> T20, max |-> T35]]

\* The pages the site serves in a whole run of the program: a page of two
\* horses with every tab, and the same page without the win/place tab.
SamplePages ==
    { MakePage(<<RowB, RowA>>, AllTabs, "numeric", TRUE),
      MakePage(<<RowB, RowA>>, [tabs |-> <<"wakuren", "umaren">>, broken |-> {}],
               "numeric", TRUE) }

\* Line 91, then the call of line 94: the odds page is loaded, with what the
\* site shows on it.
WaitLoaded ==
    /\ pc = "loaded"
    /\ \E ok \in BOOLEAN :
         IF ok THEN /\ page' \in SamplePages /\ pc' = "tanpuku" /\ exc' = exc
         ELSE /\ page' = page /\ pc' = "finally" /\ exc' = "Error"
    /\ UNCHANGED DailyVars
    /\ UNCHANGED <<race_id, caller, labels,
                   kaisai_link, playwright, browsers, contexts,
                   nav, clicked, tansho, fukusho, umaren, odds_data, launched>>

\* Line 99, in the finally: context.close() closes the context, or raises
\* and leaves the finally before line 100.
CloseContext ==
    /\ pc = "finally"
    /\ \E ok \in BOOLEAN :
         IF ok THEN contexts' = contexts - 1 /\ pc' = "close_browser" /\ exc' = exc
         ELSE contexts' = contexts /\ pc' = "exit_with" /\ exc' = "Error"
    /\ UNCHANGED DailyVars
    /\ UNCHANGED <<race_id, caller, labels,
                   kaisai_link, playwright, browsers, nav, clicked,
                   page, tansho, fukusho, umaren, odds_data, launched>>

\* Line 100.
CloseBrowser ==
    /\ pc = "close_browser"
    /\ \E ok \in BOOLEAN :
         IF ok THEN browsers' = browsers - 1 /\ exc' = exc
         ELSE browsers' = browsers /\ exc' = "Error"
    /\ pc' = "exit_with"
    /\ UNCHANGED DailyVars
    /\ UNCHANGED <<race_id, caller, labels,
                   kaisai_link, playwright, contexts, nav, clicked,
                   page, tansho, fukusho, umaren, odds_data, launched>>

\* The exit of the async with of line 62: the driver stops.  Then the
\* return of line 96, or the handler of line 102 when an exception is in
\* flight.
ExitPlaywright ==
    /\ pc = "exit_with"
    /\ playwright' = FALSE
    /\ browsers' = AfterDriverStop(browsers)
    /\ contexts' = AfterDriverStop(contexts)
    /\ nav' = "none"
    /\ pc' = IF exc = "none" THEN "ret" ELSE "handler"
    /\ UNCHANGED DailyVars
    /\ UNCHANGED <<race_id, caller, labels,
                   kaisai_link, clicked, page, tansho, fukusho,
                   umaren, odds_data, exc, launched>>

\* Lines 102-113: the error record is returned, unless the console write of
\* line 103 raises, and then the exception leaves get_race_odds.
HandleRaceError ==
    /\ pc = "handler"
    /\ \E ok \in BOOLEAN :
         IF ok THEN /\ odds_data' = ErrorRecord(race_id, exc)
                    /\ exc' = "none"
                    /\ pc' = "ret"
         ELSE /\ odds_data' = odds_data
              /\ exc' = "OSError"
              /\ pc' = "ret"
    /\ UNCHANGED DailyVars
    /\ UNCHANGED <<race_id, caller, labels,
                   kaisai_link, playwright, browsers, contexts,
                   nav, clicked, page, tansho, fukusho, umaren, launched>>


(***************************************************************************)
(* get_daily_odds                                                          *)
(***************************************************************************)
\* Identifiers the resolver's files may hold.  IdGood and IdUnknownVenue
\* have the 10-digit format (year, venue, day of meeting, race); IdTwelve is
\* the 12-digit example of the docstring of line 45; IdLetters has no venue
\* number; IdBadDay has no number at [6:8].
IdGood         == <<"2", "0", "2", "5", "0", "5", "0", "1", "0", "2">>
IdUnknownVenue == <<"2", "0", "2", "5", "1", "1", "0", "2", "0", "2">>
IdTwelve       == <<"2", "0", "2", "5", "0", "6", "0", "1", "0", "5", "0", "1">>
IdLetters      == <<"2", "0", "2", "5", "x", "x", "0", "1", "0", "2">>
IdBadDay       == <<"2", "0", "2", "5", "0", "5", "x", "x", "0", "2">>
IdPool == {IdGood, IdTwelve, IdLetters, IdBadDay}

\* What _get_race_ids_for_date (lines 407-430) may return: the race_id
\* column of a file, or [] when no file is found or reading raises.
ResolverResults == UNION {[1..n -> IdPool] : n \in 0..MaxRaces}

DateHyphens == <<"2", "0", "2", "5", "-", "0", "1", "-", "1", "3">>
DateShort   == <<"2", "0", "2", "5", "1", "1", "3">>
DateLetters == <<"2", "0", "2", "5", "a", "b", "1", "3">>
DatePool == {DateHyphens, DateShort, DateLetters}

\* The report of an empty day given the status of a day that went well.
NoRacesReportSuccess(d) ==
    [date |-> d, races |-> <<>>, total_races |-> 0, successful_races |-> 0,
     failed_races |-> 0, status |-> "success", message |-> "no races for the date"]

\* Lines 336-344.
NoRacesReport(d) ==
    [date |-> d, races |-> <<>>, total_races |-> 0, successful_races |-> 0,
     failed_races |-> 0, status |-> "error", message |-> "no races for the date"]

\* Lines 397-405.
FailureReport(d, e) ==
    [date |-> d, races |-> <<>>, total_races |-> 0, successful_races |-> 0,
     failed_races |-> 0, status |-> "error", message |-> e]

\* The status with >= for >.
FinalStatusAtLeast(successful) == IF successful >= 0 THEN "success" ELSE "error"

\* Line 391.
FinalStatus(successful) == IF successful > 0 THEN "success" ELSE "error"

\* Lines 385-393.
FinalReport(d, ids, races, successful, failed) ==
    [date |-> d, races |-> races, total_races |-> Len(ids),
     successful_races |-> successful, failed_races |-> failed,
     status |-> FinalStatus(successful), message |-> "counts"]

\* Lines 322-330: the date is normalised and its length checked.
DailyBegin ==
    /\ pc = "daily"
    /\ LET d == IF \E n \in DOMAIN date : date[n] = "-" THEN Remove(date, "-")
                ELSE date
       IN  /\ date' = d
           /\ IF Len(d) # 8
              THEN exc' = "ValueError" /\ pc' = "daily_fail"
              ELSE exc' = exc /\ pc' = "resolve"
    /\ UNCHANGED <<argv, race_ids, idx, races_data, successful_count,
                   failed_count, report, paced>>
    /\ UNCHANGED <<race_id, caller, labels,
                   kaisai_link, playwright, browsers, contexts,
                   nav, clicked, page, tansho, fukusho, umaren, odds_data,
                   launched>>

\* Lines 333-351: the resolver answers; an empty answer is reported at once.
Resolve ==
    /\ pc = "resolve"
    /\ \E ids \in ResolverResults :
         /\ race_ids' = ids
         /\ IF ids = <<>>
            THEN /\ report' = NoRacesReport(date)
                 /\ pc' = "main_report"
                 /\ UNCHANGED <<idx, races_data, successful_count, failed_count>>
            ELSE /\ races_data' = <<>>
                 /\ successful_count' = 0
                 /\ failed_count' = 0
                 /\ idx' = 1
                 /\ report' = report
                 /\ pc' = "loop"
    /\ UNCHANGED <<argv, date, paced>>
    /\ UNCHANGED GetRaceOddsVars

\* The locals of a call of get_race_odds are gone once it has returned.
ReturnedFrom ==
    /\ race_id' = <<>> /\ caller' = "none"
    /\ labels' = NoValue /\ kaisai_link' = 0
    /\ page' = NoValue /\ odds_data' = NoValue
    /\ tansho' = <<>> /\ fukusho' = <<>> /\ umaren' = <<>>
    /\ clicked' = <<>>

\* Lines 353-357: the next identifier is handed to get_race_odds.
CallGetRaceOdds ==
    /\ pc = "loop"
    /\ idx <= Len(race_ids)
    /\ race_id' = race_ids[idx]
    /\ caller' = "daily"
    /\ pc' = "parse"
    /\ UNCHANGED DailyVars
    /\ UNCHANGED <<labels,
                   kaisai_link, playwright, browsers, contexts, nav, clicked, page,
                   tansho, fukusho, umaren, odds_data, exc, launched>>

\* Lines 358-368, when get_race_odds returned a record: it is appended and
\* counted; then the console write of line 362 or 365 and the sleep of
\* line 368 run, or one of them raises into the handler of line 370.
\* When get_race_odds raised, control is in that handler at once.
AfterFetch ==
    /\ pc = "ret"
    /\ caller = "daily"
    /\ IF exc # "none"
       THEN /\ pc' = "daily_except"
            /\ paced' = FALSE
            /\ UNCHANGED <<races_data, successful_count, failed_count, idx, exc>>
       ELSE /\ races_data' = Append(races_data, odds_data)
            /\ IF odds_data.status = "success"
               THEN successful_count' = successful_count + 1
                    /\ failed_count' = failed_count
               ELSE failed_count' = failed_count + 1
                    /\ successful_count' = successful_count
            /\ \E ok \in BOOLEAN :
                 IF ok THEN /\ paced' = TRUE /\ idx' = idx + 1
                            /\ pc' = "loop" /\ exc' = exc
                 ELSE /\ paced' = FALSE /\ idx' = idx
                      /\ pc' = "daily_except" /\ exc' = "OSError"
    /\ ReturnedFrom
    /\ UNCHANGED <<argv, date, race_ids, report>>
    /\ UNCHANGED <<playwright, browsers, contexts, nav, launched>>

\* Lines 370-383.
DailyExcept ==
    /\ pc = "daily_except"
    /\ failed_count' = failed_count + 1
    /\ races_data' = Append(races_data, ErrorRecord(race_ids[idx], exc))
    /\ exc' = "none"
    /\ idx' = idx + 1
    /\ pc' = "loop"
    /\ UNCHANGED <<argv, date, race_ids, successful_count, report, paced>>
    /\ UNCHANGED <<race_id, caller, labels,
                   kaisai_link, playwright, browsers, contexts,
                   nav, clicked, page, tansho, fukusho, umaren, odds_data,
                   launched>>

\* Lines 385-393.
ReturnReport ==
    /\ pc = "loop"
    /\ idx > Len(race_ids)
    /\ report' = FinalReport(date, race_ids, races_data, successful_count,
                             failed_count)
    /\ pc' = "main_report"
    /\ UNCHANGED <<argv, date, race_ids, idx, races_data, successful_count,
                   failed_count, paced>>
    /\ UNCHANGED GetRaceOddsVars

\* Lines 395-405.
DailyFail ==
    /\ pc = "daily_fail"
    /\ report' = FailureReport(date, exc)
    /\ exc' = "none"
    /\ pc' = "main_report"
    /\ UNCHANGED <<argv, date, race_ids, idx, races_data, successful_count,
                   failed_count, paced>>
    /\ UNCHANGED <<race_id, caller, labels,
                   kaisai_link, playwright, browsers, contexts,
                   nav, clicked, page, tansho, fukusho, umaren, odds_data,
                   launched>>

(***************************************************************************)
(* main                                                                    *)
(***************************************************************************)
\* re.match(r'^\d{10}$', race_id) of line 499.
IsRaceIdFormat(id) == Len(id) = 10 /\ \A n \in DOMAIN id : id[n] \in Digit

Argvs == {[mode |-> "--date", arg |-> d] : d \in DatePool}
         \cup {[mode |-> "race", arg |-> id] : id \in IdPool \cup {IdUnknownVenue}}

\* Lines 449-457.
MainDate ==
    /\ pc = "main"
    /\ argv.mode = "--date"
    /\ date' = argv.arg
    /\ pc' = "daily"
    /\ UNCHANGED <<argv, race_ids, idx, races_data, successful_count,
                   failed_count, report, paced>>
    /\ UNCHANGED GetRaceOddsVars

\* Lines 494-506.
MainRace ==
    /\ pc = "main"
    /\ argv.mode = "race"
    /\ IF IsRaceIdFormat(argv.arg)
       THEN /\ race_id' = argv.arg /\ caller' = "main" /\ pc' = "parse"
       ELSE /\ race_id' = race_id /\ caller' = caller /\ pc' = "exit 1"
    /\ UNCHANGED DailyVars
    /\ UNCHANGED <<labels,
                   kaisai_link, playwright, browsers, contexts, nav, clicked, page,
                   tansho, fukusho, umaren, odds_data, exc, launched>>

\* json.dump of lines 490 and 535 raises TypeError on a dict whose keys are
\* tuples: a record with a non-empty umaren cannot be saved.
Saves(records) == \A n \in DOMAIN records : records[n].umaren = <<>>

\* Lines 508-537.
MainAfterRace ==
    /\ pc = "ret"
    /\ caller = "main"
    /\ pc' = IF exc # "none" THEN "raised"
             ELSE IF odds_data.status # "success" THEN "exit 1"
             ELSE IF Saves(<<odds_data>>) THEN "exit 0" ELSE "raised"
    /\ UNCHANGED DailyVars
    /\ UNCHANGED GetRaceOddsVars

\* Lines 459-492.
MainReport ==
    /\ pc = "main_report"
    /\ pc' = IF Saves(report.races) THEN "exit 0" ELSE "raised"
    /\ UNCHANGED DailyVars
    /\ UNCHANGED GetRaceOddsVars

Init ==
    /\ pc = "main"
    /\ argv \in Argvs
    /\ date = <<>> /\ race_ids = <<>> /\ idx = 0
    /\ races_data = <<>> /\ successful_count = 0 /\ failed_count = 0
    /\ report = NoValue /\ paced = FALSE
    /\ caller = "none" /\ race_id = <<>> /\ labels = NoValue
    /\ kaisai_link = 0
    /\ playwright = FALSE /\ browsers = 0 /\ contexts = 0
    /\ nav = "none" /\ clicked = <<>> /\ page = NoValue
    /\ tansho = <<>> /\ fukusho = <<>> /\ umaren = <<>>
    /\ odds_data = NoValue /\ exc = "none" /\ launched = 0

Next ==
    \/ MainDate \/ MainRace \/ MainAfterRace \/ MainReport
    \/ DailyBegin \/ Resolve \/ CallGetRaceOdds \/ AfterFetch \/ DailyExcept
    \/ ReturnReport \/ DailyFail
    \/ ParseRaceId \/ StartPlaywright \/ LaunchBrowser \/ NewContext \/ NewPage
    \/ GotoHome \/ ClickOdds \/ BuildLabels \/ ChooseRoute
    \/ ClickMeeting \/ ClickRace
    \/ ClickResults \/ FallbackClickMeeting \/ FallbackClickRace
    \/ FallbackClickOdds
    \/ WaitLoaded \/ ExtractTanpuku \/ ExtractUmaren \/ BuildRecord
    \/ CloseContext \/ CloseBrowser \/ ExitPlaywright \/ HandleRaceError

Spec == Init /\ [][Next]_vars


(***************************************************************************)
(* Properties                                                              *)
(***************************************************************************)
Returned == report # NoValue

ErrorCount(records) == Cardinality({n \in DOMAIN records : records[n].status = "error"})

\* C1: every report get_daily_odds returns has successful_races +
\* failed_races = total_races = len(races).
C1_BatchInvariant ==
    Returned =>
        /\ report.successful_races + report.failed_races = report.total_races
        /\ report.total_races = Len(report.races)

\* C2: the races of a report hold exactly one record per identifier of the
\* resolver, in its order and with its race_id, and failed_races is the
\* number of error records among them.
C2_OneRecordPerIdentifier ==
    (Returned /\ race_ids # <<>>) =>
        /\ Len(report.races) = Len(race_ids)
        /\ \A n \in DOMAIN report.races :
              n <= Len(race_ids) => report.races[n].race_id = race_ids[n]
        /\ report.failed_races = ErrorCount(report.races)

\* The positions of get_race_odds at which its browser session may be open.
SessionOpenAt == {"launch", "new_context", "new_page", "goto", "click_odds",
                  "labels", "route", "meeting", "race", "results",
                  "fb_meeting", "fb_race", "fb_odds", "loaded", "tanpuku",
                  "umaren", "record", "finally", "close_browser", "exit_with"}

\* C3: at most one browser and one context are open at any time, and none
\* is open once control has left the async with of get_race_odds, whether
\* it left by the return or with an exception: the handler, the caller and
\* the next identifier find every session torn down.
C3_SessionTornDown ==
    /\ browsers <= 1
    /\ contexts <= 1
    /\ pc \notin SessionOpenAt => (browsers = 0 /\ contexts = 0 /\ ~playwright)

\* C3 witness: the second identifier of a batch starts after the first one
\* launched a browser and ended as an error.
C3_Witness ==
    /\ pc = "parse" /\ caller = "daily" /\ idx = 2
    /\ launched = 1 /\ failed_count = 1 /\ browsers = 0 /\ contexts = 0

\* C4: the first horse of every key of the umaren of a record has the least
\* value of the tansho of that record, and a record with an empty tansho has
\* an empty umaren and is a success all the same.
C4_QuinellaAnchoredOnFavorite ==
    odds_data # NoValue =>
        /\ \A n \in DOMAIN odds_data.umaren :
              LET a == odds_data.umaren[n][1][1]
              IN  /\ a \in Keys(odds_data.tansho)
                  /\ \A m \in DOMAIN odds_data.tansho :
                        Get(odds_data.tansho, a) <= odds_data.tansho[m][2]
        /\ odds_data.tansho = <<>> =>
              (odds_data.umaren = <<>> /\ odds_data.status = "success")

\* C4 witness: three horses with win odds, the second the favourite, and a
\* quinella entry anchored on it.
C4_Witness ==
    /\ odds_data # NoValue
    /\ Len(odds_data.tansho) = 3
    /\ odds_data.umaren # <<>>
    /\ odds_data.umaren[1][1] = <<2, 3>>

\* C5: when the resolver returns no identifier, get_daily_odds returns an
\* error report with zero counts, no races and a message, and no browser
\* was launched.
C5_EmptyResolverResult ==
    (Returned /\ Len(date) = 8 /\ race_ids = <<>>) =>
        /\ report.status = "error"
        /\ report.total_races = 0
        /\ report.successful_races = 0
        /\ report.failed_races = 0
        /\ report.races = <<>>
        /\ report.message # ""
        /\ launched = 0

\* C5 witness: a well-formed date for which the resolver found nothing.
C5_Witness ==
    /\ Returned /\ Len(date) = 8 /\ race_ids = <<>>
    /\ pc = "main_report" /\ argv.arg = DateHyphens

\* C6: the status of a report is "success" exactly when one of its records
\* is a success, which is when successful_races >= 1; else it is "error".
C6_StatusIffSomeSuccess ==
    Returned =>
        /\ report.status \in {"success", "error"}
        /\ report.status = "success" <=> report.successful_races >= 1
        /\ report.status = "success" <=>
              \E n \in DOMAIN report.races : report.races[n].status = "success"

\* C6 witness: a report of two races, one a success and one an error.
C6_Witness ==
    /\ Returned
    /\ report.status = "success"
    /\ report.successful_races = 1
    /\ report.failed_races = 1
    /\ Len(report.races) = 2

\* C7: for an identifier of the 10-digit format, the venue name comes from
\* the venue field [4:6], the day of the meeting label from the day field
\* [6:8] and the race number of the race label from the race field [8:10].
C7_LabelsFromOwnFields ==
    (IsRaceIdFormat(race_id) /\ "kaisai_name" \in DOMAIN labels) =>
        /\ labels.kaisai_name.place = PlaceName(IntOf(Slice(race_id, 4, 6)))
        /\ labels.kaisai_name.day = IntOf(Slice(race_id, 6, 8))
        /\ labels.race_name = IntOf(Slice(race_id, 8, 10))

\* C8: for an identifier that is not of the 10-digit format no driver is
\* started, no browser is launched and no page is visited, in single-race
\* mode and in the batch loop.
C8_MalformedNeverNavigates ==
    (caller \in {"daily", "main"} /\ ~IsRaceIdFormat(race_id)) =>
        (~playwright /\ browsers = 0 /\ nav = "none")

\* The (low, high) shown in the row of horse h of page p.
PlaceRows(p, h) ==
    {j \in DOMAIN p.rows : /\ p.rows[j].num = <<Chr(h)>>
                           /\ p.rows[j].fuku.td
                           /\ IsFloat(p.rows[j].fuku.min)
                           /\ IsFloat(p.rows[j].fuku.max)}

\* C9: every value of the fukusho of a record is exactly half the sum of the
\* low and the high shown in the row of its horse, and lies between them.
C9_PlaceIsMidpoint ==
    odds_data # NoValue =>
        \A n \in DOMAIN odds_data.fukusho :
            LET h == odds_data.fukusho[n][1]
                v == odds_data.fukusho[n][2]
            IN  \E j \in PlaceRows(page, h) :
                    LET low == FloatOf(page.rows[j].fuku.min)
                        high == FloatOf(page.rows[j].fuku.max)
                    IN  2 * v = low + high /\ low <= v /\ v <= high

\* C9 witness: a record with the place odds of two horses, 1.1-1.4 and
\* 2.0-3.5.
C9_Witness ==
    /\ odds_data # NoValue
    /\ Len(odds_data.fukusho) = 2
    /\ odds_data.fukusho[1][2] = 125
    /\ odds_data.fukusho[2][2] = 275

\* Whether the page lacks one of the two bet-type tabs extraction selects.
TabMissing == IF page = NoValue THEN FALSE
              ELSE ~HasTab(page, "tanpuku") \/ ~HasTab(page, "umaren")

\* C10: when a link or a bet-type tab is not found, or a navigation step
\* raises, the record of the race is an error that carries the identifier
\* and a reason, and that fault does not leave get_race_odds.
C10_FaultGivesErrorRecord ==
    (pc = "ret" /\ caller \in {"daily", "main"}) =>
        /\ exc # "Error"
        /\ (exc = "none" /\ (page = NoValue \/ TabMissing)) =>
              /\ odds_data.status = "error"
              /\ odds_data.race_id = race_id
              /\ odds_data.message # ""

\* C11: once navigation has reached the odds page of a race, the record
\* get_race_odds returns for it is a success whatever extraction obtained:
\* its maps are the ones extracted, empty or partial as they may be, and
\* race_name and post_time keep the unknown sentinel when the header cannot
\* be read.
C11_PageReachedIsSuccess ==
    (pc = "ret" /\ caller \in {"daily", "main"} /\ exc = "none"
                /\ page # NoValue) =>
        /\ odds_data.status = "success"
        /\ odds_data.tansho = tansho
        /\ odds_data.fukusho = fukusho
        /\ odds_data.umaren = umaren
        /\ ~page.header => (odds_data.race_name = "unknown"
                             /\ odds_data.post_time = "unknown")

\* The date arguments the docstring of get_daily_odds and the message of
\* line 328 ask for: eight digits once the hyphens are removed.
IsDateFormat(d) ==
    LET n == Remove(d, "-") IN Len(n) = 8 /\ \A k \in DOMAIN n : n[k] \in Digit

\* C12: for a date that is not eight digits once its hyphens are removed,
\* get_daily_odds starts no driver and launches no browser, lets no
\* exception out, and returns an error report with zero counts and no
\* races.
C12_MalformedDateRejected ==
    (argv.mode = "--date" /\ ~IsDateFormat(argv.arg)) =>
        /\ launched = 0 /\ ~playwright /\ browsers = 0
        /\ pc = "main_report" => exc = "none"
        /\ Returned =>
              /\ report.status = "error"
              /\ report.total_races = 0
              /\ report.successful_races = 0
              /\ report.failed_races = 0
              /\ report.races = <<>>

\* The placeholder "unknown(code)" of a venue code.
UnknownLabel(code) == <<"unknown", "(">> \o DecimalText(code) \o <<")">>

\* Whether the venue field [4:6] of an identifier is a number outside the
\* ten known codes.
UnknownVenue(id) ==
    /\ Len(id) >= 10
    /\ IsInt(Slice(id, 4, 6))
    /\ IntOf(Slice(id, 4, 6)) \notin DOMAIN place_mapping

\* C13: a venue code outside the ten known ones is given the label
\* "unknown(code)", which holds the code, by get_race_odds as by the venue
\* summary and the CSV helper.
C13_UnknownVenueLabel ==
    (UnknownVenue(race_id) /\ "place_name" \in DOMAIN labels) =>
        LET code == IntOf(Slice(race_id, 4, 6))
        IN  /\ SummaryPlaceName(code) = UnknownLabel(code)
            /\ CsvPlaceName(code) = UnknownLabel(code)
            /\ labels.place_name = UnknownLabel(code)

\* C14: in get_daily_odds every fetch but the first starts after the pacing
\* wait of line 368 has run since the fetch before it ended, whether that
\* fetch gave a success record, an error record or an exception the loop
\* caught.
C14_PacedBetweenFetches ==
    (pc = "parse" /\ caller = "daily" /\ idx > 1) => paced

\* The links of the two routes and the bet-type tabs, in the order the claim
\* gives them.
DirectRoute == <<"keiba", "odds", "kaisai_name", "race_name">>
FallbackRoute == <<"keiba", "odds", "results", "kaisai_name", "race_name",
                   "odds in race_result">>
TabOrder == <<"tanpuku tab", "umaren tab">>

IsPrefix(a, b) == Len(a) <= Len(b) /\ a = SubSeq(b, 1, Len(a))

\* C15: get_race_odds goes Home, OddsLanding, MeetingSelected,
\* RaceSelected, then the bet-type tabs; from OddsLanding it takes the
\* direct route (meeting link, race link) exactly when a link named after
\* the meeting is there, else the route through the race results (results,
\* meeting link, race link, odds link of the result panel); extraction
\* starts only once one of the two routes is complete, and the quinella tab
\* is never selected before the win/place tab.
C15_NavigationOrder ==
    caller \in {"daily", "main"} =>
        /\ \/ IsPrefix(clicked, DirectRoute \o TabOrder)
           \/ IsPrefix(clicked, FallbackRoute \o TabOrder)
        /\ pc = "click_odds" => nav = "Home"
        /\ pc \in {"labels", "route", "meeting", "results"} => nav = "OddsLanding"
        /\ pc = "race" => nav = "MeetingSelected"
        /\ pc = "loaded" => nav = "RaceSelected"
        /\ pc \in {"meeting", "race"} => kaisai_link > 0
        /\ pc \in {"results", "fb_meeting", "fb_race", "fb_odds"} => kaisai_link = 0
        /\ Len(clicked) >= 3 => (clicked[3] = "kaisai_name" <=> kaisai_link > 0)
        /\ pc \in {"tanpuku", "umaren", "record"} =>
              /\ nav = "RaceSelected"
              /\ page # NoValue
              /\ \/ SubSeq(clicked, 1, 4) = DirectRoute
                 \/ SubSeq(clicked, 1, 6) = FallbackRoute

\* C15 witness: no link named after the meeting on the odds landing page;
\* the route through the race results is complete and both tabs have been
\* selected, win/place first.
C15_Witness ==
    /\ caller = "main" /\ pc = "record"
    /\ kaisai_link = 0
    /\ clicked = FallbackRoute \o TabOrder

\* Whether _extract_tanpuku_odds has run and found the win/place tab and
\* its table.
TanpukuRead == /\ pc \notin {"tanpuku", "main", "parse"}
               /\ page # NoValue

TableShown == SelectsTab(page, "tanpuku") /\ page.table

\* What a row of the win/place table shows.
HasNum(row) == row.num # Absent
HasWinCell(row) == row.tan # Absent
HasPlaceCell(row) ==
    row.fuku.td /\ row.fuku.min # Absent /\ row.fuku.max # Absent
WinIsNumber(row) == HasWinCell(row) /\ IsFloat(Remove(row.tan, ","))
PlaceIsNumber(row) ==
    HasPlaceCell(row) /\ IsFloat(row.fuku.min) /\ IsFloat(row.fuku.max)

\* A page none of whose win-odds cells (place-odds cells) holds a text that
\* is no number.
WinCellsParse(p) ==
    \A j \in DOMAIN p.rows : HasWinCell(p.rows[j]) => WinIsNumber(p.rows[j])
PlaceCellsParse(p) ==
    \A j \in DOMAIN p.rows : HasPlaceCell(p.rows[j]) => PlaceIsNumber(p.rows[j])

\* C17: a win-odds cell that is no number removes no place entry whose
\* cells are numbers, of its row or of a later one, and a place-odds cell
\* that is no number removes no win entry whose cell is a number.
C17_ParseFailureStaysInCategory ==
    (TanpukuRead /\ TableShown) =>
        /\ PlaceCellsParse(page) =>
              \A j \in DOMAIN page.rows :
                  (HasNum(page.rows[j]) /\ PlaceIsNumber(page.rows[j])) =>
                      IntOf(page.rows[j].num) \in Keys(fukusho)
        /\ WinCellsParse(page) =>
              \A j \in DOMAIN page.rows :
                  (HasNum(page.rows[j]) /\ WinIsNumber(page.rows[j])) =>
                      IntOf(page.rows[j].num) \in Keys(tansho)

\* A row whose cells, where it has them, are numbers.
RowParses(row) ==
    /\ HasWinCell(row) => WinIsNumber(row)
    /\ HasPlaceCell(row) => PlaceIsNumber(row)

\* C16: every row with a horse-number cell is handled on its own and for
\* each map on its own: its horse is in the win map exactly when the row has
\* a win-odds cell and in the place map exactly when the row has a
\* place-odds cell with its low and its high, whatever the other rows of
\* the table hold.
C16_RowsHandledIndependently ==
    (TanpukuRead /\ TableShown) =>
        \A j \in DOMAIN page.rows :
            (HasNum(page.rows[j]) /\ RowParses(page.rows[j])) =>
                /\ IntOf(page.rows[j].num) \in Keys(tansho)
                      <=> HasWinCell(page.rows[j])
                /\ IntOf(page.rows[j].num) \in Keys(fukusho)
                      <=> HasPlaceCell(page.rows[j])

\* Whether _extract_umaren_odds has run with a win map and selected the
\* quinella tab.
QuinellaRead == /\ pc \notin {"tanpuku", "umaren", "main", "parse"}
                /\ page # NoValue
                /\ tansho # <<>>
                /\ SelectsTab(page, "umaren")

\* The sub-tables of a page captioned with the horse fav.
FavoriteTables(p, fav) ==
    {k \in DOMAIN p.lists : /\ p.lists[k].caption # Absent
                            /\ IsInt(p.lists[k].caption)
                            /\ IntOf(p.lists[k].caption) = fav}

\* The rows of a sub-table that have a second-horse cell and an odds cell,
\* both numbers.
PairRows(t) ==
    {l \in DOMAIN t.rows : /\ t.rows[l].th # Absent /\ t.rows[l].td # Absent
                           /\ IsInt(t.rows[l].th)
                           /\ IsFloat(Remove(t.rows[l].td, ","))}

\* The entry the row l of the sub-table t gives for the first horse fav.
PairEntry(t, l, fav) ==
    <<<<fav, IntOf(t.rows[l].th)>>, FloatOf(Remove(t.rows[l].td, ","))>>

\* C18: the quinella map holds one entry (favorite, second horse) -> odds
\* for each row, with a second-horse cell and an odds cell, of the
\* sub-table captioned with the favorite, each key once, and no entry from
\* a sub-table with another caption.
C18_OnlyFavoriteSubTable ==
    QuinellaRead =>
        LET fav == FavoriteHorse(tansho)
        IN  /\ \A k \in FavoriteTables(page, fav) :
                  \A l \in PairRows(page.lists[k]) :
                      \E n \in DOMAIN umaren :
                          umaren[n] = PairEntry(page.lists[k], l, fav)
            /\ \A n \in DOMAIN umaren :
                  \E k \in FavoriteTables(page, fav) :
                      \E l \in PairRows(page.lists[k]) :
                          umaren[n] = PairEntry(page.lists[k], l, fav)
            /\ \A m, n \in DOMAIN umaren :
                  umaren[m][1] = umaren[n][1] => m = n

\* The rows of a page whose horse is in the win map tan with the least of
\* its values.
LeastRows(p, tan) ==
    {j \in DOMAIN p.rows :
        /\ HasNum(p.rows[j])
        /\ IntOf(p.rows[j].num) \in Keys(tan)
        /\ \A n \in DOMAIN tan : Get(tan, IntOf(p.rows[j].num)) <= tan[n][2]}

\* C19: extraction leaves nothing to chance.  The favorite of a win map is
\* the horse of the first row of the win/place table, in the order of the
\* table, among the horses of least win odds, whatever its number, and every
\* quinella entry is anchored on that horse.
C19_FavoriteIsFirstTiedRow ==
    (pc \notin {"tanpuku", "umaren", "main", "parse"} /\ page # NoValue
                                                       /\ tansho # <<>>) =>
        LET first == CHOOSE j \in LeastRows(page, tansho) :
                        \A i \in LeastRows(page, tansho) : j <= i
            fav == IntOf(page.rows[first].num)
        IN  /\ LeastRows(page, tansho) # {}
            /\ FavoriteHorse(tansho) = fav
            /\ \A n \in DOMAIN umaren : umaren[n][1][1] = fav

\* C19 witness: horses 2 and 1 share the least win odds, the row of horse 2
\* comes first, and the quinella map is anchored on horse 2.
C19_Witness ==
    /\ odds_data # NoValue
    /\ tansho = <<<<3, 540>>, <<2, 180>>, <<1, 180>>>>
    /\ umaren = <<<<<<2, 3>>, 2350>>>>

====
